---- MODULE Spec2Model ----
(***************************************************************************)
(* A model of seeruk/go-migrate: the migration registry (Register), the    *)
(* execution engine (Execute) and the Driver implementations it runs       *)
(* against (PostgresDriver, MySQLDriver), together with the part of the    *)
(* database the drivers talk to: the versions table (the ledger), its      *)
(* transactions and its lock.                                              *)
(*                                                                         *)
(* Every Driver call of Execute is one atomic step; an Execute call is a   *)
(* sequence of such steps, and several calls (goroutines of one process,   *)
(* or different processes with a registry each) interleave between them.   *)
(***************************************************************************)
EXTENDS Integers, Sequences, FiniteSets, TLC

\* ------------------------------------------------------------------ bounds

\* Versions are the integers 1..MaxVersion.
MaxVersion == 2
\* A migration holds at most MaxCommands commands.
MaxCommands == 2
\* At most MaxDrivers Driver values are ever constructed.
MaxDrivers == 2
\* The versions of the specifications with two calls at a time are
\* 1..MaxConcVersion.
MaxConcVersion == 1

VersionNumbers == 1..MaxVersion
\* Commands are opaque SQL strings; command k of a migration is modelled as k.
CommandLists == {[k \in 1..n |-> k] : n \in {0, MaxCommands}}

\* Application processes (each with its own package-level registry), the
\* activations of Execute that may be in progress at once, the namespaces
\* and the versions tables the callers may name.
Procs == {"p1", "p2"}
Calls == {"c1", "c2"}
Namespaces == {"app", "other"}
Tables == {"pg_versions", "my_versions", "pq_versions"}

\* ------------------------------------------------------------------ state

VARIABLES
    namespacedMigrations, \* [proc -> [namespace -> [version -> Migration]]]
    registered,           \* [proc -> [namespace -> the versions Register was called with]]
    drivers,              \* the Driver values constructed so far
    tableExists,          \* [table -> BOOLEAN]: the versions table exists
    ledger,               \* [table -> committed rows of the versions table]
    lock,                 \* [table -> 0, or the driver whose session holds the lock]
    execLog,              \* [table -> {<<version, command index>>}]: the commands executed so far
    pc,                   \* [call -> position in Execute]
    proc,                 \* [call -> the process the call runs in]
    drv,                  \* [call -> the driver argument]
    namespace,            \* [call -> the namespace argument]
    err,                  \* [call -> the named result err]
    versions,             \* [call -> the sorted pending versions]
    idx,                  \* [call -> position of the range loop over versions]
    migration,            \* [call -> the loop's current Migration]
    cmd,                  \* [call -> position of the range loop over Commands]
    trace,                \* [call -> the driver calls and events of the call, in order]
    follows               \* [call -> the call repeats the successful call before it]

vars == <<namespacedMigrations, registered, drivers, tableExists, ledger, lock, execLog,
          pc, proc, drv, namespace, err, versions, idx, migration, cmd, trace,
          follows>>

regVars == <<namespacedMigrations, registered>>
dbVars == <<tableExists, ledger, lock, execLog>>
loopVars == <<versions, idx, migration, cmd>>
argVars == <<proc, drv, namespace, follows>>

\* ------------------------------------------------------------------ errors

\* An error is the chain of its messages, outermost first; nil is the empty chain.
NoErr == <<>>
ErrTransactionAlreadyStarted == <<"migrate: transaction already started">>
ErrTransactionNotStarted == <<"migrate: transaction not started">>
\* The panic of a method call through a nil *sql.Tx.
ErrNilDereference == <<"panic: invalid memory address or nil pointer dereference">>
\* An error of the database or of the connection (a timeout included).
ErrDB == <<"db">>
\* database/sql's ErrTxDone, pgx's ErrTxClosed: the transaction has ended.
ErrTxDone == <<"tx done">>

\* fmt.Errorf("msg: %w", e)
Wrap(msg, e) == <<msg>> \o e

\* ------------------------------------------------------------------ helpers

Range(s) == {s[k] : k \in 1..Len(s)}

Min(S) == CHOOSE x \in S : \A y \in S : x <= y

Max(S) == CHOOSE x \in S : \A y \in S : x >= y

\* A deletion that leaves the map as it was.
WithoutNothing(f, S) == [x \in DOMAIN f \cup (S \cap {}) |-> f[x]]

\* The map f without the keys in S.
Without(f, S) == [x \in DOMAIN f \ S |-> f[x]]

\* The elements of S in descending order: one of the orders in which the keys
\* come out of the map, left as it is.
RECURSIVE Unsorted(_)
Unsorted(S) ==
    IF S = {} THEN <<>> ELSE <<Max(S)>> \o Unsorted(S \ {Max(S)})

\* sort.Ints over the keys collected from a map (Go ranges over a map in no
\* particular order): the ascending sequence of the elements of S.
RECURSIVE SortInts(_)
SortInts(S) ==
    IF S = {} THEN <<>> ELSE <<Min(S)>> \o SortInts(S \ {Min(S)})

\* Migration{Version, Commands}
NewMigration(version, commands) == [Version |-> version, Commands |-> commands]

NoMigration == NewMigration(0, <<>>)

\* One entry of a call's trace: a Driver call with the error it returned, or
\* an EventHandler call with its argument.
Call(name, vs, e) == [kind |-> "call", name |-> name, vs |-> vs, err |-> e]

Event(name, vs, e) == [kind |-> "event", name |-> name, vs |-> vs, err |-> e]

\* ------------------------------------------------------------------ drivers

PostgresTables == {"pg_versions"}
MySQLTables == {"my_versions"}
\* The table of a postgres.Driver, the driver of package postgres.
PqTables == {"pq_versions"}

Drivers == 1..Len(drivers)

Table(d) == drivers[d].table

IsMySQL(d) == Table(d) \in MySQLTables

IsPq(d) == Table(d) \in PqTables

\* The rows a statement of d's transaction sees: the committed rows and its own.
Rows(d) == ledger[Table(d)] \cup drivers[d].inserted

\* What the end of d's transaction does to the lock. LOCK TABLE is held by the
\* transaction and goes with it; MySQL's named lock is held by the session and
\* stays until Unlock.
EndTxLock(d) ==
    IF ~IsMySQL(d) /\ lock[Table(d)] = d
    THEN [lock EXCEPT ![Table(d)] = 0]
    ELSE lock

\* MySQLDriver.Unlock: RELEASE_LOCK is sent on a connection of the pool, which
\* releases the lock only if that is the session holding it (sameSession).
Unlock(d, lk, sameSession) ==
    IF IsMySQL(d) /\ lk[Table(d)] = d /\ sameSession
    THEN [lk EXCEPT ![Table(d)] = 0]
    ELSE lk

\* A driver that clears d.tx when its transaction ends.
EndTxClears(d) == [drivers[d] EXCEPT !.tx = "nil", !.inserted = {}]

\* d once its transaction has ended (committed or rolled back): the tx field
\* still holds the transaction, which now refuses every statement.
EndTx(d) == [drivers[d] EXCEPT !.tx = "done", !.inserted = {}]

\* A Begin without the check of d.tx: it begins a transaction whatever the
\* driver holds.
BeginAgain(d, fail) ==
    IF fail
    THEN [err |-> Wrap("failed to start transaction", ErrDB), drivers |-> drivers]
    ELSE [err |-> NoErr, drivers |-> [drivers EXCEPT ![d].tx = "open"]]

\* Driver.Begin
Begin(d, fail) ==
    IF drivers[d].tx # "nil"
    THEN [err |-> ErrTransactionAlreadyStarted, drivers |-> drivers]
    ELSE IF fail
    THEN [err |-> Wrap("failed to start transaction", ErrDB), drivers |-> drivers]
    ELSE [err |-> NoErr, drivers |-> [drivers EXCEPT ![d].tx = "open"]]

\* A commit that leaves the rows of its transaction as the only rows.
CommitReplacesRows(d, fail, sameSession) ==
    IF drivers[d].tx # "open" \/ fail
    THEN [err |-> Wrap("failed to commit transaction", ErrDB),
          drivers |-> [drivers EXCEPT ![d] = EndTx(d)],
          ledger |-> ledger,
          lock |-> Unlock(d, EndTxLock(d), sameSession)]
    ELSE [err |-> NoErr,
          drivers |-> [drivers EXCEPT ![d] = EndTx(d)],
          ledger |-> [ledger EXCEPT ![Table(d)] = drivers[d].inserted],
          lock |-> Unlock(d, EndTxLock(d), sameSession)]

\* Driver.Commit. A commit that reports an error has not committed.
Commit(d, fail, sameSession) ==
    IF drivers[d].tx = "nil"
    THEN [err |-> ErrTransactionNotStarted, drivers |-> drivers,
          ledger |-> ledger, lock |-> lock]
    ELSE IF drivers[d].tx # "open"
    THEN [err |-> Wrap("failed to commit transaction", ErrTxDone),
          drivers |-> drivers, ledger |-> ledger,
          lock |-> Unlock(d, lock, sameSession)]
    ELSE IF fail
    THEN [err |-> Wrap("failed to commit transaction", ErrDB),
          drivers |-> [drivers EXCEPT ![d] = EndTx(d)],
          ledger |-> ledger,
          lock |-> Unlock(d, EndTxLock(d), sameSession)]
    ELSE [err |-> NoErr,
          drivers |-> [drivers EXCEPT ![d] = EndTx(d)],
          ledger |-> [ledger EXCEPT ![Table(d)] = @ \cup drivers[d].inserted],
          lock |-> Unlock(d, EndTxLock(d), sameSession)]

\* A rollback that leaves the rows of the transaction in the table.
RollbackKeepsRows(d, fail, sameSession) ==
    [err |-> NoErr,
     drivers |-> [drivers EXCEPT ![d] = EndTx(d)],
     ledger |-> [ledger EXCEPT ![Table(d)] = @ \cup drivers[d].inserted],
     lock |-> Unlock(d, EndTxLock(d), sameSession)]

\* Driver.Rollback. Whether or not the rollback reports an error, the
\* transaction is over and nothing of it is persisted.
Rollback(d, fail, sameSession) ==
    IF drivers[d].tx = "nil"
    THEN [err |-> ErrTransactionNotStarted, drivers |-> drivers,
          ledger |-> ledger, lock |-> lock]
    ELSE IF drivers[d].tx # "open"
    THEN [err |-> Wrap("failed to rollback transaction", ErrTxDone),
          drivers |-> drivers, ledger |-> ledger,
          lock |-> Unlock(d, lock, sameSession)]
    ELSE [err |-> IF fail THEN Wrap("failed to rollback transaction", ErrDB)
                  ELSE NoErr,
          drivers |-> [drivers EXCEPT ![d] = EndTx(d)],
          ledger |-> ledger,
          lock |-> Unlock(d, EndTxLock(d), sameSession)]

\* Rollback of postgres.Driver: with a transaction in d.tx it returns
\* ErrTransactionNotStarted and leaves the transaction as it is; with d.tx nil
\* it calls Rollback through the nil pointer.
PqRollback(d) ==
    IF drivers[d].tx # "nil"
    THEN [err |-> ErrTransactionNotStarted, drivers |-> drivers,
          ledger |-> ledger, lock |-> lock]
    ELSE [err |-> ErrNilDereference, drivers |-> drivers,
          ledger |-> ledger, lock |-> lock]

\* Driver.Exec of command j of version v.
Exec(d, v, j, fail) ==
    IF drivers[d].tx = "nil"
    THEN [err |-> ErrTransactionNotStarted, execLog |-> execLog]
    ELSE IF drivers[d].tx # "open"
    THEN [err |-> Wrap("failed to execute command", ErrTxDone), execLog |-> execLog]
    ELSE IF fail
    THEN [err |-> Wrap("failed to execute command", ErrDB), execLog |-> execLog]
    ELSE [err |-> NoErr,
          execLog |-> [execLog EXCEPT ![Table(d)] = @ \cup {<<v, j>>}]]

\* A lock statement that never waits for the holder of the lock: what Lock
\* would be without the database's exclusion.
LockNeverWaits(d, fail) == fail \/ drivers[d].tx # "open" \/ lock[Table(d)] >= 0

\* The lock statement of Driver.Lock returns at once: the lock is free (or
\* already d's), or the statement fails without waiting.
LockReturns(d, fail) ==
    \/ fail
    \/ drivers[d].tx # "open"
    \/ lock[Table(d)] \in {0, d}

\* A Lock whose statement takes no lock.
LockTakesNothing(d, fail) ==
    IF drivers[d].tx # "open"
    THEN [err |-> Wrap("failed to lock versions table", ErrTxDone), lock |-> lock]
    ELSE IF fail
    THEN [err |-> Wrap("failed to lock versions table", ErrDB), lock |-> lock]
    ELSE [err |-> NoErr, lock |-> lock]

\* Driver.Lock, once the statement returns. A statement that waits for the
\* lock returns with an error when the context's deadline passes (fail).
Lock(d, fail) ==
    IF drivers[d].tx # "open"
    THEN [err |-> Wrap("failed to lock versions table", ErrTxDone), lock |-> lock]
    ELSE IF fail
    THEN [err |-> Wrap("failed to lock versions table", ErrDB), lock |-> lock]
    ELSE [err |-> NoErr, lock |-> [lock EXCEPT ![Table(d)] = d]]

\* A CreateVersionsTable with CREATE TABLE in place of CREATE TABLE IF NOT
\* EXISTS: the statement fails when the table is there.
CreateTableOnce(d, fail) ==
    IF fail \/ tableExists[Table(d)]
    THEN [err |-> Wrap("failed to create versions table", ErrDB),
          tableExists |-> tableExists]
    ELSE [err |-> NoErr, tableExists |-> [tableExists EXCEPT ![Table(d)] = TRUE]]

\* Driver.CreateVersionsTable: CREATE TABLE IF NOT EXISTS, on the pool.
CreateVersionsTable(d, fail) ==
    IF fail
    THEN [err |-> Wrap("failed to create versions table", ErrDB),
          tableExists |-> tableExists]
    ELSE [err |-> NoErr, tableExists |-> [tableExists EXCEPT ![Table(d)] = TRUE]]

\* An InsertVersion without the check of RowsAffected: an INSERT that affects
\* no row returns nil.
InsertVersionUnchecked(d, version, outcome) ==
    IF drivers[d].tx # "open"
    THEN [err |-> Wrap("failed to insert version", ErrTxDone), drivers |-> drivers]
    ELSE IF outcome = "error" \/ version \in Rows(d)
    THEN [err |-> Wrap("failed to insert version", ErrDB), drivers |-> drivers]
    ELSE IF outcome = "zero"
    THEN [err |-> NoErr, drivers |-> drivers]
    ELSE [err |-> NoErr,
          drivers |-> [drivers EXCEPT ![d].inserted = @ \cup {version}]]

\* Driver.InsertVersion. outcome is what the database does with the INSERT:
\* "ok", "error", or "zero" (no error and no row affected). The primary key
\* refuses a version that is already a row.
InsertVersion(d, version, outcome) ==
    IF drivers[d].tx # "open"
    THEN [err |-> Wrap("failed to insert version", ErrTxDone), drivers |-> drivers]
    ELSE IF outcome = "error" \/ version \in Rows(d)
    THEN [err |-> Wrap("failed to insert version", ErrDB), drivers |-> drivers]
    ELSE IF outcome = "zero"
    THEN [err |-> <<"expected new version row to be inserted, but no rows affected">>,
          drivers |-> drivers]
    ELSE [err |-> NoErr,
          drivers |-> [drivers EXCEPT ![d].inserted = @ \cup {version}]]

\* Driver.Versions: SELECT version FROM the table, inside the transaction.
Versions(d, fail) ==
    IF drivers[d].tx # "open"
    THEN [err |-> Wrap("failed to query current versions", ErrTxDone), versions |-> {}]
    ELSE IF fail
    THEN [err |-> Wrap("failed to query current versions", ErrDB), versions |-> {}]
    ELSE [err |-> NoErr, versions |-> Rows(d)]

\* Driver.VersionTableExists, on the pool.
VersionTableExists(d, fail) ==
    IF fail
    THEN [err |-> ErrDB, exists |-> FALSE]
    ELSE [err |-> NoErr, exists |-> tableExists[Table(d)]]

\* ------------------------------------------------------------------ registry

\* The registry of call c's process for its namespace: migrationsByVersion,
\* which is the registry's own map and not a copy of it.
MigrationsByVersion(c) == namespacedMigrations[proc[c]][namespace[c]]

Running(p) == {c \in Calls : proc[c] = p /\ pc[c] \notin {"idle", "done"}}

Init ==
    /\ namespacedMigrations = [p \in Procs |-> <<>>]
    /\ registered = [p \in Procs |-> [ns \in Namespaces |-> {}]]
    /\ drivers = <<>>
    /\ tableExists = [t \in Tables |-> FALSE]
    /\ ledger = [t \in Tables |-> {}]
    /\ lock = [t \in Tables |-> 0]
    /\ execLog = [t \in Tables |-> {}]
    /\ pc = [c \in Calls |-> "idle"]
    /\ proc = [c \in Calls |-> "p1"]
    /\ drv = [c \in Calls |-> 0]
    /\ namespace = [c \in Calls |-> "app"]
    /\ err = [c \in Calls |-> NoErr]
    /\ versions = [c \in Calls |-> <<>>]
    /\ idx = [c \in Calls |-> 0]
    /\ migration = [c \in Calls |-> NoMigration]
    /\ cmd = [c \in Calls |-> 0]
    /\ trace = [c \in Calls |-> <<>>]
    /\ follows = [c \in Calls |-> FALSE]

\* The calls of process p that have returned. What a returned call left (its
\* result and its trace) is kept until the process goes on to register a
\* migration or to construct a driver.
Returned(p) == {c \in Calls : proc[c] = p /\ pc[c] = "done"}

Forget(p) ==
    /\ pc' = [c \in Calls |-> IF c \in Returned(p) THEN "idle" ELSE pc[c]]
    /\ err' = [c \in Calls |-> IF c \in Returned(p) THEN NoErr ELSE err[c]]
    /\ trace' = [c \in Calls |-> IF c \in Returned(p) THEN <<>> ELSE trace[c]]
    /\ versions' = [c \in Calls |-> IF c \in Returned(p) THEN <<>> ELSE versions[c]]
    /\ idx' = [c \in Calls |-> IF c \in Returned(p) THEN 0 ELSE idx[c]]
    /\ cmd' = [c \in Calls |-> IF c \in Returned(p) THEN 0 ELSE cmd[c]]
    /\ migration' = [c \in Calls |->
                       IF c \in Returned(p) THEN NoMigration ELSE migration[c]]
    /\ follows' = [c \in Calls |-> IF c \in Returned(p) THEN FALSE ELSE follows[c]]
    /\ proc' = [c \in Calls |-> IF c \in Returned(p) THEN "p1" ELSE proc[c]]
    /\ drv' = [c \in Calls |-> IF c \in Returned(p) THEN 0 ELSE drv[c]]
    /\ namespace' = [c \in Calls |-> IF c \in Returned(p) THEN "app" ELSE namespace[c]]

\* Register(namespace, migration) in process p. The registry is a plain map:
\* the step is taken while no Execute of the process is in progress.
Register(p, ns, m) ==
    /\ Running(p) = {}
    /\ namespacedMigrations' =
         [namespacedMigrations EXCEPT ![p] =
            IF ns \in DOMAIN @
            THEN [@ EXCEPT ![ns] = (m.Version :> m) @@ @]
            ELSE (ns :> (m.Version :> m)) @@ @]
    /\ registered' = [registered EXCEPT ![p][ns] = @ \cup {m.Version}]
    /\ Forget(p)
    /\ UNCHANGED <<drivers, dbVars>>

\* NewPostgresDriver / NewMySQLDriver in process p, for versions table t.
NewDriver(p, t) ==
    /\ Len(drivers) < MaxDrivers
    /\ drivers' = Append(drivers, [proc |-> p, table |-> t, tx |-> "nil",
                                   inserted |-> {}])
    /\ Forget(p)
    /\ UNCHANGED <<regVars, dbVars>>

\* ------------------------------------------------------------------ Execute

\* A diff by the highest applied version: it drops every version up to it.
AppliedUpToHighest(reg, existingVersions) ==
    {v \in DOMAIN reg : existingVersions # {} /\ v <= Max(existingVersions)}

\* A diff that drops nothing from the registry's map.
AppliedNone(reg, existingVersions) == existingVersions \cap {}

\* A diff that drops every version of the map once the table has been read.
AppliedAll(reg, existingVersions) == DOMAIN reg \cup (existingVersions \cap {})

\* The versions Execute drops from the registry's map: those the ledger holds.
Applied(reg, existingVersions) == {v \in existingVersions : v \in DOMAIN reg}

\* A loop that skips every version.
SkipsAll(reg, version) == version \in DOMAIN reg \/ version \notin DOMAIN reg

\* The loop of the variant without the check for empty migrations: it skips
\* only a version that is no longer in the map.
SkipsMissingOnly(reg, version) == version \notin DOMAIN reg

\* The loop skips a version that is no longer in the map or has no commands.
SkipsVersion(reg, version) ==
    IF version \notin DOMAIN reg THEN TRUE ELSE Len(reg[version].Commands) = 0

\* A step of call c: its position moves to next, err is set to e, and the
\* entries are added to its trace.
Step(c, next, e, entries) ==
    /\ pc' = [pc EXCEPT ![c] = next]
    /\ err' = [err EXCEPT ![c] = e]
    /\ trace' = [trace EXCEPT ![c] = @ \o entries]

\* Call c, which has returned, committed its transaction.
Committed(c) ==
    /\ pc[c] = "done"
    /\ err[c] = NoErr
    /\ \E k \in 1..Len(trace[c]) : trace[c][k].name = "Commit"

\* The Execute that call c is about to make in process p repeats its last one:
\* that one committed, on the same namespace and versions table, and the
\* process has registered nothing since.
Repeats(c, p, d, ns) ==
    /\ Committed(c)
    /\ proc[c] = p
    /\ namespace[c] = ns
    /\ Table(drv[c]) = Table(d)

\* An Execute that goes on to the versions table whether or not the namespace
\* is registered.
ExecuteWithoutLookup(c, p, d, ns, overlap) ==
    /\ pc[c] \in {"idle", "done"}
    /\ d \in Drivers
    /\ drivers[d].proc = p
    /\ overlap \/ \A o \in Calls : pc[o] \in {"idle", "done"} \/ drv[o] # d
    /\ proc' = [proc EXCEPT ![c] = p]
    /\ drv' = [drv EXCEPT ![c] = d]
    /\ namespace' = [namespace EXCEPT ![c] = ns]
    /\ follows' = [follows EXCEPT ![c] = FALSE]
    /\ versions' = [versions EXCEPT ![c] = <<>>]
    /\ idx' = [idx EXCEPT ![c] = 0]
    /\ migration' = [migration EXCEPT ![c] = NoMigration]
    /\ cmd' = [cmd EXCEPT ![c] = 0]
    /\ pc' = [pc EXCEPT ![c] = "exists"]
    /\ err' = [err EXCEPT ![c] = NoErr]
    /\ trace' = [trace EXCEPT ![c] = <<>>]
    /\ UNCHANGED <<regVars, drivers, dbVars>>

\* Execute(driver, events, namespace, timeout) is called in process p. With
\* overlap the driver may be one that a call in progress is using.
Execute(c, p, d, ns, overlap) ==
    /\ pc[c] \in {"idle", "done"}
    /\ d \in Drivers
    /\ drivers[d].proc = p
    /\ overlap \/ \A o \in Calls : pc[o] \in {"idle", "done"} \/ drv[o] # d
    /\ proc' = [proc EXCEPT ![c] = p]
    /\ drv' = [drv EXCEPT ![c] = d]
    /\ namespace' = [namespace EXCEPT ![c] = ns]
    /\ follows' = [follows EXCEPT ![c] = Repeats(c, p, d, ns)]
    /\ versions' = [versions EXCEPT ![c] = <<>>]
    /\ idx' = [idx EXCEPT ![c] = 0]
    /\ migration' = [migration EXCEPT ![c] = NoMigration]
    /\ cmd' = [cmd EXCEPT ![c] = 0]
    /\ pc' = [pc EXCEPT ![c] =
                IF ns \in DOMAIN namespacedMigrations[p] THEN "exists" ELSE "done"]
    /\ err' = [err EXCEPT ![c] = NoErr]
    /\ trace' = [trace EXCEPT ![c] = <<>>]
    /\ UNCHANGED <<regVars, drivers, dbVars>>

\* driver.VersionTableExists
ExecuteTableExists(c, fail) ==
    /\ pc[c] = "exists"
    /\ LET r == VersionTableExists(drv[c], fail)
           call == Call("VersionTableExists", <<>>, r.err) IN
         IF r.err # NoErr
         THEN Step(c, "deferred",
                   Wrap("failed to check if versions table exists", r.err), <<call>>)
         ELSE IF r.exists
         THEN Step(c, "begin", NoErr, <<call>>)
         ELSE Step(c, "create", NoErr,
                   <<call, Event("OnVersionTableNotExists", <<>>, NoErr)>>)
    /\ UNCHANGED <<regVars, drivers, dbVars, argVars, loopVars>>

\* driver.CreateVersionsTable
ExecuteCreateTable(c, fail) ==
    /\ pc[c] = "create"
    /\ LET r == CreateVersionsTable(drv[c], fail)
           call == Call("CreateVersionsTable", <<>>, r.err) IN
         /\ tableExists' = r.tableExists
         /\ IF r.err # NoErr
            THEN Step(c, "deferred", r.err, <<call>>)
            ELSE Step(c, "begin", NoErr,
                      <<call, Event("OnVersionTableCreated", <<>>, NoErr)>>)
    /\ UNCHANGED <<regVars, drivers, ledger, lock, execLog, argVars,
                   loopVars>>

\* driver.Begin
ExecuteBegin(c, fail) ==
    /\ pc[c] = "begin"
    /\ LET r == Begin(drv[c], fail)
           call == Call("Begin", <<>>, r.err) IN
         /\ drivers' = r.drivers
         /\ IF r.err # NoErr
            THEN Step(c, "deferred", Wrap("failed to begin transaction", r.err),
                      <<call>>)
            ELSE Step(c, "lock", NoErr, <<call>>)
    /\ UNCHANGED <<regVars, dbVars, argVars, loopVars>>

\* A Lock step that goes on to the read whatever Lock returned.
ExecuteLockGoesOn(c, fail) ==
    /\ pc[c] = "lock"
    /\ LockReturns(drv[c], fail)
    /\ LET r == Lock(drv[c], fail)
           call == Call("Lock", <<>>, r.err) IN
         /\ lock' = r.lock
         /\ Step(c, "versions", NoErr, <<call>>)
    /\ UNCHANGED <<regVars, drivers, tableExists, ledger, execLog,
                   argVars, loopVars>>

\* driver.Lock
ExecuteLock(c, fail) ==
    /\ pc[c] = "lock"
    /\ LockReturns(drv[c], fail)
    /\ LET r == Lock(drv[c], fail)
           call == Call("Lock", <<>>, r.err) IN
         /\ lock' = r.lock
         /\ IF r.err # NoErr
            THEN Step(c, "deferred", Wrap("failed to lock versions table", r.err),
                      <<call>>)
            ELSE Step(c, "versions", NoErr, <<call>>)
    /\ UNCHANGED <<regVars, drivers, tableExists, ledger, execLog,
                   argVars, loopVars>>

\* driver.Versions, the deletion of the existing versions from the registry's
\* map, the sorted list of what is left, and events.BeforeVersionsMigrate.
ExecuteVersions(c, fail) ==
    /\ pc[c] = "versions"
    /\ LET r == Versions(drv[c], fail)
           call == Call("Versions", <<>>, r.err)
           reg == Without(MigrationsByVersion(c),
                          Applied(MigrationsByVersion(c), r.versions))
           sorted == SortInts(DOMAIN reg) IN
         IF r.err # NoErr
         THEN /\ Step(c, "deferred", Wrap("failed to get current versions", r.err),
                      <<call>>)
              /\ UNCHANGED <<namespacedMigrations, versions, idx>>
         ELSE /\ namespacedMigrations' =
                   [namespacedMigrations EXCEPT ![proc[c]][namespace[c]] = reg]
              /\ versions' = [versions EXCEPT ![c] = sorted]
              /\ idx' = [idx EXCEPT ![c] = 1]
              /\ Step(c, "loop", NoErr,
                      <<call, Event("BeforeVersionsMigrate", sorted, NoErr)>>)
    /\ UNCHANGED <<registered, drivers, dbVars, argVars, migration, cmd>>

\* A loop whose AfterVersionsMigrate lists only the versions that were not
\* skipped.
ExecuteLoopListsApplied(c) ==
    /\ pc[c] = "loop"
    /\ IF idx[c] > Len(versions[c])
       THEN /\ Step(c, "commit", NoErr,
                    <<Event("AfterVersionsMigrate",
                            SelectSeq(versions[c],
                                      LAMBDA v : ~SkipsVersion(MigrationsByVersion(c), v)),
                            NoErr)>>)
            /\ UNCHANGED <<idx, migration, cmd>>
       ELSE LET version == versions[c][idx[c]]
                reg == MigrationsByVersion(c) IN
            IF SkipsVersion(reg, version)
            THEN /\ Step(c, "loop", NoErr,
                         <<Event("OnVersionSkipped", <<version>>, NoErr)>>)
                 /\ idx' = [idx EXCEPT ![c] = @ + 1]
                 /\ UNCHANGED <<migration, cmd>>
            ELSE /\ Step(c, IF Len(reg[version].Commands) = 0 THEN "insert" ELSE "exec",
                         NoErr, <<Event("BeforeVersionMigrate", <<version>>, NoErr)>>)
                 /\ migration' = [migration EXCEPT ![c] = reg[version]]
                 /\ cmd' = [cmd EXCEPT ![c] = 1]
                 /\ UNCHANGED idx
    /\ UNCHANGED <<regVars, drivers, dbVars, argVars, versions>>

\* The head of the loop over versions: the end of the loop with
\* events.AfterVersionsMigrate, a skipped version, or events.BeforeVersionMigrate.
ExecuteLoop(c) ==
    /\ pc[c] = "loop"
    /\ IF idx[c] > Len(versions[c])
       THEN /\ Step(c, "commit", NoErr,
                    <<Event("AfterVersionsMigrate", versions[c], NoErr)>>)
            /\ UNCHANGED <<idx, migration, cmd>>
       ELSE LET version == versions[c][idx[c]]
                reg == MigrationsByVersion(c) IN
            IF SkipsVersion(reg, version)
            THEN /\ Step(c, "loop", NoErr,
                         <<Event("OnVersionSkipped", <<version>>, NoErr)>>)
                 /\ idx' = [idx EXCEPT ![c] = @ + 1]
                 /\ UNCHANGED <<migration, cmd>>
            ELSE /\ Step(c, IF Len(reg[version].Commands) = 0 THEN "insert" ELSE "exec",
                         NoErr, <<Event("BeforeVersionMigrate", <<version>>, NoErr)>>)
                 /\ migration' = [migration EXCEPT ![c] = reg[version]]
                 /\ cmd' = [cmd EXCEPT ![c] = 1]
                 /\ UNCHANGED idx
    /\ UNCHANGED <<regVars, drivers, dbVars, argVars, versions>>

\* An Exec step that goes on with the next command after a failed one.
ExecuteExecContinues(c, fail) ==
    /\ pc[c] = "exec"
    /\ LET version == versions[c][idx[c]]
           r == Exec(drv[c], version, cmd[c], fail)
           call == Call("Exec", <<version, cmd[c]>>, r.err) IN
         /\ execLog' = r.execLog
         /\ Step(c, IF cmd[c] < Len(migration[c].Commands) THEN "exec"
                    ELSE "insert", NoErr, <<call>>)
         /\ cmd' = [cmd EXCEPT ![c] = @ + 1]
    /\ UNCHANGED <<regVars, drivers, tableExists, ledger, lock, argVars,
                   versions, idx, migration>>

\* driver.Exec of the next command of the current migration
ExecuteExec(c, fail) ==
    /\ pc[c] = "exec"
    /\ LET version == versions[c][idx[c]]
           r == Exec(drv[c], version, cmd[c], fail)
           call == Call("Exec", <<version, cmd[c]>>, r.err) IN
         /\ execLog' = r.execLog
         /\ IF r.err # NoErr
            THEN /\ Step(c, "deferred",
                         Wrap("failed to execute migration (command)", r.err), <<call>>)
                 /\ UNCHANGED cmd
            ELSE /\ Step(c, IF cmd[c] < Len(migration[c].Commands) THEN "exec"
                            ELSE "insert", NoErr, <<call>>)
                 /\ cmd' = [cmd EXCEPT ![c] = @ + 1]
    /\ UNCHANGED <<regVars, drivers, tableExists, ledger, lock, argVars,
                   versions, idx, migration>>

\* driver.InsertVersion and events.AfterVersionMigrate
ExecuteInsertVersion(c, outcome) ==
    /\ pc[c] = "insert"
    /\ LET version == versions[c][idx[c]]
           r == InsertVersion(drv[c], version, outcome)
           call == Call("InsertVersion", <<version>>, r.err) IN
         /\ drivers' = r.drivers
         /\ IF r.err # NoErr
            THEN /\ Step(c, "deferred", Wrap("failed to insert version", r.err),
                         <<call>>)
                 /\ UNCHANGED idx
            ELSE /\ Step(c, "loop", NoErr,
                         <<call, Event("AfterVersionMigrate", <<version>>, NoErr)>>)
                 /\ idx' = [idx EXCEPT ![c] = @ + 1]
    /\ UNCHANGED <<regVars, dbVars, argVars, versions, migration, cmd>>

\* driver.Commit; Execute returns nil when it succeeds
ExecuteCommit(c, fail, sameSession) ==
    /\ pc[c] = "commit"
    /\ LET r == Commit(drv[c], fail, sameSession)
           call == Call("Commit", <<>>, r.err) IN
         /\ drivers' = r.drivers
         /\ ledger' = r.ledger
         /\ lock' = r.lock
         /\ IF r.err # NoErr
            THEN Step(c, "deferred", Wrap("failed to commit transaction", r.err),
                      <<call>>)
            ELSE Step(c, "done", NoErr, <<call>>)
    /\ UNCHANGED <<regVars, tableExists, execLog, argVars, loopVars>>

\* A deferred function that returns the error of the rollback in place of the
\* error that made the call fail.
DeferredReturnsRollbackError(c, fail, sameSession) ==
    /\ pc[c] = "deferred"
    /\ LET r == Rollback(drv[c], fail, sameSession)
           call == Call("Rollback", <<>>, r.err)
           result == IF r.err # NoErr THEN r.err ELSE err[c] IN
         /\ drivers' = r.drivers
         /\ ledger' = r.ledger
         /\ lock' = r.lock
         /\ Step(c, "done", result,
                 <<call, Event("OnExecuteError", <<>>, result)>>)
    /\ UNCHANGED <<regVars, tableExists, execLog, argVars, loopVars>>

\* The deferred function of a failed call: driver.Rollback, events.OnRollbackError,
\* events.OnExecuteError; Execute returns err.
ExecuteDeferred(c, fail, sameSession) ==
    /\ pc[c] = "deferred"
    /\ LET r == Rollback(drv[c], fail, sameSession)
           call == Call("Rollback", <<>>, r.err)
           reported == IF r.err # NoErr /\ r.err # ErrTransactionNotStarted
                       THEN <<Event("OnRollbackError", <<>>, r.err)>>
                       ELSE <<>> IN
         /\ drivers' = r.drivers
         /\ ledger' = r.ledger
         /\ lock' = r.lock
         /\ Step(c, "done", err[c],
                 <<call>> \o reported \o <<Event("OnExecuteError", <<>>, err[c])>>)
    /\ UNCHANGED <<regVars, tableExists, execLog, argVars, loopVars>>

\* ------------------------------------------------------------------ specifications

InsertOutcomes == {"ok", "error", "zero"}

\* Process p is still in its initialization: it has constructed no driver.
AtStartup(p) == \A d \in Drivers : drivers[d].proc # p

\* The steps of the calls. homes holds <<call, process>> for each call and the
\* process it runs in; nss and ts are the namespaces and the versions tables,
\* vs and cls the versions and the command lists of the migrations. preFails
\* are the outcomes (failure or not) of the Driver calls made before the lock
\* is requested, midFails those of Versions and Exec, outcomes those of
\* InsertVersion. With startup, a process registers its migrations before it
\* constructs a driver.
NextOf(homes, nss, ts, vs, cls, overlap, sessions, preFails, midFails, outcomes, startup) ==
    \/ \E h \in homes, ns \in nss, v \in vs, cl \in cls :
         /\ startup => AtStartup(h[2])
         /\ Register(h[2], ns, NewMigration(v, cl))
    \/ \E h \in homes, t \in ts : NewDriver(h[2], t)
    \/ \E h \in homes, d \in Drivers, ns \in nss : Execute(h[1], h[2], d, ns, overlap)
    \/ \E h \in homes, fail \in preFails : ExecuteTableExists(h[1], fail)
    \/ \E h \in homes, fail \in preFails : ExecuteCreateTable(h[1], fail)
    \/ \E h \in homes, fail \in preFails : ExecuteBegin(h[1], fail)
    \/ \E h \in homes, fail \in BOOLEAN : ExecuteLock(h[1], fail)
    \/ \E h \in homes, fail \in midFails : ExecuteVersions(h[1], fail)
    \/ \E h \in homes : ExecuteLoop(h[1])
    \/ \E h \in homes, fail \in midFails : ExecuteExec(h[1], fail)
    \/ \E h \in homes, outcome \in outcomes : ExecuteInsertVersion(h[1], outcome)
    \/ \E h \in homes, fail \in BOOLEAN, s \in sessions : ExecuteCommit(h[1], fail, s)
    \/ \E h \in homes, fail \in BOOLEAN, s \in sessions : ExecuteDeferred(h[1], fail, s)

\* One process and one call at a time, on the Postgres table: sequences of
\* Register and Execute with any migrations, every Driver call failing or not.
Next ==
    NextOf({<<"c1", "p1">>}, {"app"}, PostgresTables, VersionNumbers, CommandLists,
           FALSE, {TRUE}, BOOLEAN, BOOLEAN, InsertOutcomes, FALSE)

Spec == Init /\ [][Next]_vars

\* Two calls at a time in two processes, each with a driver of its own, on the
\* Postgres table. The lock request, the commit and the rollback may fail.
NextConc ==
    NextOf({<<"c1", "p1">>, <<"c2", "p2">>}, {"app"}, PostgresTables,
           1..MaxConcVersion, {<<1>>}, FALSE, {TRUE}, {FALSE}, {FALSE}, {"ok"}, TRUE)

SpecConc == Init /\ [][NextConc]_vars

\* One process and one call at a time on the Postgres table, with migrations
\* and calls of Execute for either namespace.
NextNs ==
    NextOf({<<"c1", "p1">>}, Namespaces, PostgresTables, 1..MaxConcVersion, {<<1>>}, FALSE, {TRUE}, {FALSE}, {FALSE}, {"ok", "error"}, FALSE)

SpecNs == Init /\ [][NextNs]_vars

\* Two calls at a time in two processes, each with a driver of its own, on the
\* MySQL table. The RELEASE_LOCK of Unlock runs on the session that holds the
\* named lock or on another session of the pool.
NextMySQL ==
    NextOf({<<"c1", "p1">>, <<"c2", "p2">>}, {"app"}, MySQLTables, 1..MaxConcVersion, {<<1>>}, FALSE, BOOLEAN, {FALSE}, {FALSE}, {"ok"}, TRUE)

SpecMySQL == Init /\ [][NextMySQL]_vars

\* Two calls at a time in one process, on the Postgres table, where a call
\* may be given the driver that the other call is using.
NextOverlap ==
    NextOf({<<"c1", "p1">>, <<"c2", "p1">>}, {"app"}, PostgresTables, 1..MaxConcVersion, {<<1>>}, TRUE, {TRUE}, {FALSE}, {FALSE}, {"ok"}, TRUE)

SpecOverlap == Init /\ [][NextOverlap]_vars

\* ------------------------------------------------------------------ driver methods
\*
\* The methods of the drivers called one by one by a caller of its own, for
\* PostgresDriver, MySQLDriver and postgres.Driver. The caller's trace holds
\* the last call and what it returned.

Caller == "c1"

Answer(name, vs, e) == trace' = [trace EXCEPT ![Caller] = <<Call(name, vs, e)>>]

callerVars == <<regVars, tableExists, execLog, pc, err, loopVars, argVars>>

\* NewPostgresDriver, NewMySQLDriver, postgres.NewDriver
DriverNew(t) ==
    /\ Len(drivers) < MaxDrivers
    /\ drivers' = Append(drivers, [proc |-> "p1", table |-> t, tx |-> "nil",
                                   inserted |-> {}])
    /\ Answer("New", <<Len(drivers) + 1>>, NoErr)
    /\ UNCHANGED <<callerVars, ledger, lock>>

DriverBegin(d, fail) ==
    /\ LET r == Begin(d, fail) IN
         /\ drivers' = r.drivers
         /\ Answer("Begin", <<d>>, r.err)
    /\ UNCHANGED <<callerVars, ledger, lock>>

\* Lock and InsertVersion go through d.tx without a check: the caller calls
\* them after Begin, as Execute does.
DriverLock(d, fail) ==
    /\ drivers[d].tx # "nil"
    /\ LockReturns(d, fail)
    /\ LET r == Lock(d, fail) IN
         /\ lock' = r.lock
         /\ Answer("Lock", <<d>>, r.err)
    /\ UNCHANGED <<callerVars, drivers, ledger>>

DriverInsertVersion(d, version, outcome) ==
    /\ drivers[d].tx # "nil"
    /\ LET r == InsertVersion(d, version, outcome) IN
         /\ drivers' = r.drivers
         /\ Answer("InsertVersion", <<d, version>>, r.err)
    /\ UNCHANGED <<callerVars, ledger, lock>>

DriverCommit(d, fail, sameSession) ==
    /\ LET r == Commit(d, fail, sameSession) IN
         /\ drivers' = r.drivers
         /\ ledger' = r.ledger
         /\ lock' = r.lock
         /\ Answer("Commit", <<d>>, r.err)
    /\ UNCHANGED callerVars

DriverRollback(d, fail, sameSession) ==
    /\ LET r == IF IsPq(d) THEN PqRollback(d) ELSE Rollback(d, fail, sameSession) IN
         /\ drivers' = r.drivers
         /\ ledger' = r.ledger
         /\ lock' = r.lock
         /\ Answer("Rollback", <<d>>, r.err)
    /\ UNCHANGED callerVars

NextDriver ==
    \/ \E t \in Tables : DriverNew(t)
    \/ \E d \in Drivers, fail \in BOOLEAN : DriverBegin(d, fail)
    \/ \E d \in Drivers, fail \in BOOLEAN : DriverLock(d, fail)
    \/ \E d \in Drivers, v \in 1..MaxConcVersion, outcome \in InsertOutcomes : DriverInsertVersion(d, v, outcome)
    \/ \E d \in Drivers, fail \in BOOLEAN, s \in BOOLEAN : DriverCommit(d, fail, s)
    \/ \E d \in Drivers, fail \in BOOLEAN, s \in BOOLEAN : DriverRollback(d, fail, s)

SpecDriver == Init /\ [][NextDriver]_vars

\* ------------------------------------------------------------------ properties

\* Call c's trace holds a call of the Driver method name that returned nil.
Succeeded(c, name) ==
    \E k \in 1..Len(trace[c]) :
        /\ trace[c][k].kind = "call"
        /\ trace[c][k].name = name
        /\ trace[c][k].err = NoErr

\* Call c's trace holds a call of the Driver method name.
Called(c, name) ==
    \E k \in 1..Len(trace[c]) :
        trace[c][k].kind = "call" /\ trace[c][k].name = name

\* Call c is between its successful Lock and its Commit or Rollback.
Holding(c) ==
    /\ pc[c] \notin {"idle", "done"}
    /\ Succeeded(c, "Lock")
    /\ ~Called(c, "Commit")
    /\ ~Called(c, "Rollback")

\* Call c holds the lock and has read the ledger.
HasRead(c) == Holding(c) /\ Succeeded(c, "Versions")

\* C1: of two concurrent Execute calls with separate drivers on the same
\* versions table, at most one is between its successful Lock and its
\* Commit/Rollback; and the pending versions of a call that has read the
\* ledger under the lock hold no version that is committed, so none that
\* another call committed before it.
C1_MutualExclusion ==
    /\ \A c, o \in Calls :
          (/\ c # o
           /\ Holding(c)
           /\ Holding(o)
           /\ drv[c] # drv[o]) => Table(drv[c]) # Table(drv[o])
    /\ \A c \in Calls :
          HasRead(c) => Range(versions[c]) \cap ledger[Table(drv[c])] = {}

\* C1's case: one call holds the lock with a version pending while another
\* call, with a driver of its own on the same table, waits in Lock.
C1_Witness ==
    \E c, o \in Calls :
        /\ c # o
        /\ HasRead(c)
        /\ versions[c] # <<>>
        /\ pc[o] = "lock"
        /\ drv[o] # drv[c]
        /\ Table(drv[o]) = Table(drv[c])
        /\ drivers[drv[o]].tx = "open"

\* The versions for which call c's trace holds a call of the Driver method name.
CalledFor(c, name) ==
    {trace[c][k].vs[1] : k \in {i \in 1..Len(trace[c]) :
                                   /\ trace[c][i].kind = "call"
                                   /\ trace[c][i].name = name}}

\* Call c takes the step of a Driver.Exec that returns nil.
ExecSucceeds(c) ==
    /\ pc[c] = "exec"
    /\ pc'[c] \in {"exec", "insert"}
    /\ cmd'[c] = cmd[c] + 1

\* C2 as stated: no command of a version is executed twice on one ledger,
\* whatever happened to the run that executed it first.
C2_ExecAtMostOnce ==
    [][\A c \in Calls :
         ExecSucceeds(c) =>
             <<versions[c][idx[c]], cmd[c]>> \notin execLog[Table(drv[c])]]_vars

\* C2, amended: commands are executed only for versions that are not
\* committed in the ledger, and the versions whose commands a committed run
\* executed are in the ledger; so the commands of a version are executed in at
\* most one run that commits. A run that is rolled back leaves its versions
\* out of the ledger, and a later run executes their commands again.
C2_ExecOnlyUncommitted ==
    \A c \in Calls :
        /\ Holding(c) => CalledFor(c, "Exec") \cap ledger[Table(drv[c])] = {}
        /\ Committed(c) => CalledFor(c, "Exec") \subseteq ledger[Table(drv[c])]

\* C2's case: a call is executing the commands of a version whose last
\* command was executed before, by a run that was rolled back.
C2_Witness ==
    \E c \in Calls :
        /\ Holding(c)
        /\ pc[c] = "exec"
        /\ cmd[c] = MaxCommands
        /\ CalledFor(c, "Exec") = {versions[c][idx[c]]}
        /\ <<versions[c][idx[c]], MaxCommands>> \in execLog[Table(drv[c])]
        /\ versions[c][idx[c]] \notin ledger[Table(drv[c])]

\* The versions for which call c's trace holds a call of the Driver method
\* name that returned nil.
SucceededFor(c, name) ==
    {trace[c][k].vs[1] : k \in {i \in 1..Len(trace[c]) :
                                   /\ trace[c][i].kind = "call"
                                   /\ trace[c][i].name = name
                                   /\ trace[c][i].err = NoErr}}

\* The versions call c processed: those it announced with BeforeVersionMigrate.
Processed(c) ==
    {trace[c][k].vs[1] : k \in {i \in 1..Len(trace[c]) :
                                   /\ trace[c][i].kind = "event"
                                   /\ trace[c][i].name = "BeforeVersionMigrate"}}

\* C3: when a call that began its transaction has returned, the ledger holds
\* every version the call inserted if the call succeeded, and none of the
\* versions the call processed if it failed (at a command, at an
\* InsertVersion or at Commit).
C3_Atomicity ==
    \A c \in Calls :
        (pc[c] = "done" /\ Succeeded(c, "Begin")) =>
            IF err[c] = NoErr
            THEN SucceededFor(c, "InsertVersion") \subseteq ledger[Table(drv[c])]
            ELSE Processed(c) \cap ledger[Table(drv[c])] = {}

\* C3's case: a call has returned an error after it had inserted a version
\* and gone on to a second one.
C3_Witness ==
    \E c \in Calls :
        /\ pc[c] = "done"
        /\ err[c] # NoErr
        /\ SucceededFor(c, "InsertVersion") # {}
        /\ Processed(c) # SucceededFor(c, "InsertVersion")
        /\ Succeeded(c, "Rollback")

\* The versions registered (V) in the process and namespace of call c.
RegisteredVersions(c) == registered[proc[c]][namespace[c]]

\* The registered versions of call c's namespace that have no command.
EmptyVersions(c) ==
    {v \in DOMAIN MigrationsByVersion(c) : Len(MigrationsByVersion(c)[v].Commands) = 0}

\* The pending list of call c is V \ A, without repetition.
PendingIsDifference(c) ==
    /\ Range(versions[c]) = RegisteredVersions(c) \ ledger[Table(drv[c])]
    /\ Len(versions[c]) = Cardinality(Range(versions[c]))

\* C4 as stated: with the applied versions A among the registered versions V,
\* the pending set is V \ A, and when Execute has returned success the
\* ledger equals V.
C4_LedgerEqualsRegistered ==
    \A c \in Calls :
        /\ HasRead(c) => PendingIsDifference(c)
        /\ Committed(c) => ledger[Table(drv[c])] = RegisteredVersions(c)

\* C4, amended: the pending set is V \ A, and when Execute has returned
\* success the ledger equals V without the pending versions that have no
\* command, which Execute skips.
C4_LedgerEqualsRegisteredWithCommands ==
    \A c \in Calls :
        /\ HasRead(c) => PendingIsDifference(c)
        /\ Committed(c) =>
              ledger[Table(drv[c])] = RegisteredVersions(c) \ EmptyVersions(c)

\* C4's case: a call has returned success, it applied a version, and a
\* registered version without commands is not in the ledger.
C4_Witness ==
    \E c \in Calls :
        /\ Committed(c)
        /\ SucceededFor(c, "InsertVersion") # {}
        /\ EmptyVersions(c) # {}
        /\ ledger[Table(drv[c])] # RegisteredVersions(c)

\* Entry k of call c's trace is a call of the Driver method name.
IsCall(c, k, name) == trace[c][k].kind = "call" /\ trace[c][k].name = name

\* Before entry j of call c's trace, the Driver method name returned nil for vs.
DoneBefore(c, j, name, vs) ==
    \E i \in 1..(j - 1) : trace[c][i] = Call(name, vs, NoErr)

\* C5: within one Execute call the pending migrations are applied in
\* strictly ascending version order and the commands of a migration in list
\* order: when command n of version w is executed, the commands before it
\* have been executed, in order and once, every command of every pending
\* version below w (that has commands) has been executed and that version
\* inserted, and nothing of a version above w has been executed or inserted.
C5_AscendingOrder ==
    \A c \in Calls : \A j \in 1..Len(trace[c]) :
        IsCall(c, j, "Exec") =>
            LET w == trace[c][j].vs[1]
                n == trace[c][j].vs[2]
                reg == MigrationsByVersion(c) IN
            /\ \A m \in 1..(n - 1) : DoneBefore(c, j, "Exec", <<w, m>>)
            /\ \A i \in 1..(j - 1) :
                  (IsCall(c, i, "Exec") \/ IsCall(c, i, "InsertVersion")) =>
                      /\ trace[c][i].vs[1] <= w
                      /\ IsCall(c, i, "InsertVersion") => trace[c][i].vs[1] < w
                      /\ (IsCall(c, i, "Exec") /\ trace[c][i].vs[1] = w) =>
                             trace[c][i].vs[2] < n
            /\ \A v \in Range(versions[c]) :
                  (v < w /\ Len(reg[v].Commands) > 0) =>
                      /\ \A m \in 1..Len(reg[v].Commands) :
                            DoneBefore(c, j, "Exec", <<v, m>>)
                      /\ DoneBefore(c, j, "InsertVersion", <<v>>)

\* C5's case: a call has executed the last command of a second version.
C5_Witness ==
    \E c \in Calls : \E v, w \in SucceededFor(c, "InsertVersion") :
        /\ v < w
        /\ DoneBefore(c, Len(trace[c]) + 1, "Exec", <<v, MaxCommands>>)
        /\ DoneBefore(c, Len(trace[c]) + 1, "Exec", <<w, MaxCommands>>)

\* C6: a registered version lower than a version of the ledger, and itself
\* absent from the ledger, is pending once the call has read the ledger; and
\* when the call has returned success every such pending version that has
\* commands was inserted by the call and is in the ledger.
C6_MissingLowerApplied ==
    \A c \in Calls :
        (HasRead(c) \/ Committed(c)) =>
            \A v \in RegisteredVersions(c) : \A h \in ledger[Table(drv[c])] :
                v < h =>
                    /\ (HasRead(c) /\ v \notin ledger[Table(drv[c])]) =>
                           v \in Range(versions[c])
                    /\ (/\ Committed(c)
                        /\ v \in Range(versions[c])
                        /\ v \notin EmptyVersions(c)) =>
                           v \in SucceededFor(c, "InsertVersion")
                                  \cap ledger[Table(drv[c])]

\* C6's case: a call has returned success after inserting a version lower
\* than one that an earlier run had left in the ledger.
C6_Witness ==
    \E c \in Calls :
        /\ Committed(c)
        /\ \E v \in SucceededFor(c, "InsertVersion") :
             \E h \in ledger[Table(drv[c])] \ Range(versions[c]) :
                 v < h /\ v \in ledger[Table(drv[c])]

\* The events of call c, in order.
Events(c) == SelectSeq(trace[c], LAMBDA e : e.kind = "event")

\* A Driver call of call c failed for a reason that lies with the database or
\* the connection, not with the program: an error it returned, a timeout, an
\* INSERT that affected no row.
DatabaseFailed(c) ==
    \E k \in 1..Len(trace[c]) :
        /\ trace[c][k].kind = "call"
        /\ trace[c][k].err # NoErr
        /\ trace[c][k].err[Len(trace[c][k].err)] \notin
               {ErrTransactionAlreadyStarted[1], ErrTransactionNotStarted[1], ErrTxDone[1]}

\* C7 as stated: an Execute that repeats a successful Execute (same
\* namespace and versions table, nothing registered in between, the
\* database answering every statement) returns nil, executes no command,
\* inserts no version, and its only events are BeforeVersionsMigrate([]) and
\* AfterVersionsMigrate([]).
C7_SecondRunIsNoOp ==
    \A c \in Calls :
        (follows[c] /\ pc[c] = "done" /\ ~DatabaseFailed(c)) =>
            /\ err[c] = NoErr
            /\ ~Called(c, "Exec")
            /\ ~Called(c, "InsertVersion")
            /\ Events(c) = <<Event("BeforeVersionsMigrate", <<>>, NoErr),
                             Event("AfterVersionsMigrate", <<>>, NoErr)>>

\* Call c's trace holds the event name for version v.
Emitted(c, name, v) ==
    \E k \in 1..Len(trace[c]) : trace[c][k] = Event(name, <<v>>, NoErr)

LoopEvents(vs) ==
    [k \in 1..(2 * Len(vs)) |->
        IF k % 2 = 1
        THEN Event("BeforeVersionMigrate", <<vs[(k + 1) \div 2]>>, NoErr)
        ELSE Event("AfterVersionMigrate", <<vs[k \div 2]>>, NoErr)]

\* The events of a successful run that applies the versions vs.
RunEvents(vs) ==
    <<Event("BeforeVersionsMigrate", vs, NoErr)>> \o LoopEvents(vs)
        \o <<Event("AfterVersionsMigrate", vs, NoErr)>>

\* The events of Execute about the versions table, which come first.
TableEvents ==
    {<<>>, <<Event("OnVersionTableNotExists", <<>>, NoErr),
             Event("OnVersionTableCreated", <<>>, NoErr)>>}

\* C9: when a call has returned success and its pending versions v1 < ... < vn
\* all have commands, its events are, after the table events if any, exactly
\* BeforeVersionsMigrate([v1..vn]), BeforeVersionMigrate(vi) and
\* AfterVersionMigrate(vi) for each vi in ascending order, and
\* AfterVersionsMigrate([v1..vn]).
C9_EventTrace ==
    \A c \in Calls :
        (Committed(c) /\ Range(versions[c]) \cap EmptyVersions(c) = {}) =>
            /\ \A i, j \in 1..Len(versions[c]) : i < j => versions[c][i] < versions[c][j]
            /\ \E t \in TableEvents : Events(c) = t \o RunEvents(versions[c])

\* C9's case: a call has returned success with MaxVersion pending versions,
\* all with commands, after it created the versions table.
C9_Witness ==
    \E c \in Calls :
        /\ Committed(c)
        /\ Len(versions[c]) = MaxVersion
        /\ Range(versions[c]) \cap EmptyVersions(c) = {}
        /\ Len(Events(c)) = 2 * MaxVersion + 4

\* The versions call c reported as applied: those of its AfterVersionMigrate
\* events, and those of the list it passed to AfterVersionsMigrate that it
\* did not skip.
Reported(c) ==
    {v \in VersionNumbers :
        \/ Emitted(c, "AfterVersionMigrate", v)
        \/ /\ \E k \in 1..Len(trace[c]) :
                 /\ trace[c][k].kind = "event"
                 /\ trace[c][k].name = "AfterVersionsMigrate"
                 /\ v \in Range(trace[c][k].vs)
           /\ ~Emitted(c, "OnVersionSkipped", v)}

\* C10 as stated: when a call has returned, every version it reported as
\* applied is in the committed ledger.
C10_ReportedIsPersisted ==
    \A c \in Calls :
        pc[c] = "done" => \A v \in Reported(c) : v \in ledger[Table(drv[c])]

\* The step is call c entering Execute.
Enters(c) ==
    /\ pc[c] \in {"idle", "done"}
    /\ pc'[c] \in {"exists", "done"}
    /\ drv'[c] # 0

\* C11: an Execute for a namespace that was never registered returns nil at
\* once: the call has made no Driver call and emitted no event, and the step
\* leaves the registry, the drivers and the database as they were.
C11_UnregisteredNamespace ==
    [][\A c \in Calls :
         (Enters(c) /\ namespace'[c] \notin DOMAIN namespacedMigrations[proc'[c]]) =>
             /\ pc'[c] = "done"
             /\ err'[c] = NoErr
             /\ trace'[c] = <<>>
             /\ UNCHANGED <<regVars, drivers, dbVars>>]_vars

\* C11's case: a call for a namespace that is not registered has returned,
\* in a process where another namespace is registered and the ledger holds
\* versions.
C11_Witness ==
    \E c \in Calls :
        /\ pc[c] = "done"
        /\ drv[c] # 0
        /\ namespace[c] \notin DOMAIN namespacedMigrations[proc[c]]
        /\ DOMAIN namespacedMigrations[proc[c]] # {}
        /\ ledger[Table(drv[c])] # {}
        /\ trace[c] = <<>>
        /\ err[c] = NoErr

\* The entries of call c's trace that are calls of the Driver method name.
CallsOf(c, name) == {k \in 1..Len(trace[c]) : IsCall(c, k, name)}

\* The entries of call c's trace that are Driver calls, other than Rollback,
\* that returned an error.
FailedCalls(c) ==
    {k \in 1..Len(trace[c]) :
        /\ trace[c][k].kind = "call"
        /\ trace[c][k].name # "Rollback"
        /\ trace[c][k].err # NoErr}

\* Call c's trace holds an event name.
EmittedAny(c, name) ==
    \E k \in 1..Len(trace[c]) :
        trace[c][k].kind = "event" /\ trace[c][k].name = name

\* C12: a call that failed after its Begin succeeded has called Rollback
\* once, after the Driver call that failed, and has returned the error of
\* that call, wrapped; when Rollback returned an error, OnRollbackError got
\* that error and the call's result is still the original error.
C12_RollbackKeepsError ==
    \A c \in Calls :
        (pc[c] = "done" /\ err[c] # NoErr /\ Succeeded(c, "Begin")) =>
            /\ Cardinality(CallsOf(c, "Rollback")) = 1
            /\ Cardinality(FailedCalls(c)) = 1
            /\ \A k \in FailedCalls(c) : \A r \in CallsOf(c, "Rollback") :
                  /\ k < r
                  /\ err[c] = Wrap(err[c][1], trace[c][k].err)
                  /\ trace[c][Len(trace[c])] = Event("OnExecuteError", <<>>, err[c])
                  /\ IF trace[c][r].err # NoErr
                     THEN /\ trace[c][r + 1] =
                                Event("OnRollbackError", <<>>, trace[c][r].err)
                          /\ err[c] # trace[c][r].err
                     ELSE ~EmittedAny(c, "OnRollbackError")

\* C12's case: a call has returned the error of a failed command after its
\* Rollback failed too.
C12_Witness ==
    \E c \in Calls : \E k \in FailedCalls(c) : \E r \in CallsOf(c, "Rollback") :
        /\ pc[c] = "done"
        /\ trace[c][k].name = "Exec"
        /\ trace[c][r].err = Wrap("failed to rollback transaction", ErrDB)
        /\ EmittedAny(c, "OnRollbackError")

\* C13 as stated: a call that failed before it opened a transaction (at
\* VersionTableExists, CreateVersionsTable or Begin) attempted no rollback,
\* its driver.Rollback finding no transaction, and emitted no OnRollbackError.
C13_NoRollbackBeforeBegin ==
    \A c \in Calls :
        (pc[c] = "done" /\ err[c] # NoErr /\ ~Succeeded(c, "Begin")) =>
            /\ ~EmittedAny(c, "OnRollbackError")
            /\ \A r \in CallsOf(c, "Rollback") :
                  trace[c][r].err = ErrTransactionNotStarted

\* Entries b < l < j of call c's trace are a Begin and a Lock that returned nil.
BegunAndLockedBefore(c, j) ==
    \E b, l \in 1..(j - 1) :
        /\ b < l
        /\ trace[c][b] = Call("Begin", <<>>, NoErr)
        /\ trace[c][l] = Call("Lock", <<>>, NoErr)

\* C14: a call reads the ledger (Versions) only after its Lock returned nil,
\* and requests the lock only after its Begin returned nil; from the read
\* until its Commit or Rollback the call's transaction is open and holds the
\* lock, and no other driver on the table has a row inserted.
C14_ReadUnderLock ==
    \A c \in Calls :
        /\ \A j \in CallsOf(c, "Versions") : BegunAndLockedBefore(c, j)
        /\ \A j \in CallsOf(c, "Lock") : DoneBefore(c, j, "Begin", <<>>)
        /\ HasRead(c) =>
              /\ drivers[drv[c]].tx = "open"
              /\ lock[Table(drv[c])] = drv[c]
              /\ \A d \in Drivers \ {drv[c]} :
                    Table(d) = Table(drv[c]) => drivers[d].inserted = {}

\* C14's case: a call has read the ledger and inserted a version while
\* another call, which began its transaction, waits for the lock.
C14_Witness ==
    \E c, o \in Calls :
        /\ c # o
        /\ HasRead(c)
        /\ drivers[drv[c]].inserted # {}
        /\ pc[o] = "lock"
        /\ Succeeded(o, "Begin")
        /\ Table(drv[o]) = Table(drv[c])

\* The entries of call c's trace up to its call of Begin are in the order of
\* the code: VersionTableExists; then, if the table was missing,
\* OnVersionTableNotExists, CreateVersionsTable and, if that returned nil,
\* OnVersionTableCreated.
TablePrefix(c) ==
    LET t == trace[c]
        seen == Call("VersionTableExists", <<>>, NoErr)
        missing == Event("OnVersionTableNotExists", <<>>, NoErr)
        created == Event("OnVersionTableCreated", <<>>, NoErr) IN
    \A k \in 1..Len(t) :
        /\ IsCall(c, k, "VersionTableExists") => k = 1
        /\ t[k] = missing <=> (k = 2 /\ t[1] = seen /\ ~IsCall(c, 2, "Begin"))
        /\ IsCall(c, k, "CreateVersionsTable") => (k = 3 /\ t[2] = missing)
        /\ t[k] = created <=> (k = 4 /\ t[3] = Call("CreateVersionsTable", <<>>, NoErr))
        /\ IsCall(c, k, "Begin") =>
              /\ (k = 2 /\ t[1] = seen) \/ (k = 5 /\ t[4] = created)
              /\ tableExists[Table(drv[c])]

\* Call c is checking or creating the versions table.
AtTable(c) == pc[c] \in {"exists", "create"}

\* C15: the versions table is checked and created before Begin, while the
\* call's driver has no open transaction and holds no lock; the call goes
\* from the check to the creation exactly when the table is missing, and
\* OnVersionTableNotExists then OnVersionTableCreated are in its trace exactly
\* when CreateVersionsTable returned nil after that; with no statement failed
\* by the database, every CreateVersionsTable returns nil, also when another
\* call created the table in between, and the call goes on to a Begin that
\* returns nil.
C15_TableBeforeBegin ==
    /\ [](\A c \in Calls :
            /\ TablePrefix(c)
            /\ AtTable(c) =>
                  /\ drivers[drv[c]].tx # "open"
                  /\ lock[Table(drv[c])] # drv[c]
            /\ \A k \in CallsOf(c, "CreateVersionsTable") :
                  /\ trace[c][k].err = NoErr
                  /\ pc[c] \notin {"create", "begin"} => Succeeded(c, "Begin"))
    /\ [][\A c \in Calls :
            (pc[c] = "exists" /\ pc'[c] # "exists") =>
                (pc'[c] = "create" <=> ~tableExists[Table(drv[c])])]_vars

\* C15's case: two calls on the same table both saw it missing, both created
\* it and both began their transactions.
C15_Witness ==
    \E c, o \in Calls :
        /\ c # o
        /\ drv[c] # 0 /\ drv[o] # 0
        /\ Table(drv[c]) = Table(drv[o])
        /\ EmittedAny(c, "OnVersionTableCreated") /\ Succeeded(c, "Begin")
        /\ EmittedAny(o, "OnVersionTableCreated") /\ Succeeded(o, "Begin")

\* Entry k of call c's trace is an Exec or an InsertVersion that returned an
\* error.
FailedApply(c, k) ==
    /\ IsCall(c, k, "Exec") \/ IsCall(c, k, "InsertVersion")
    /\ trace[c][k].err # NoErr

\* C16: once an Exec or an InsertVersion of a call has returned an error, the
\* call is on its way out with an error: it calls no Driver method but
\* Rollback (no Exec, no InsertVersion, no Commit), emits no event but
\* OnRollbackError and the report of its error, and has emitted no
\* AfterVersionMigrate for the failing version.
C16_FirstFailureAborts ==
    \A c \in Calls : \A k \in 1..Len(trace[c]) :
        FailedApply(c, k) =>
            /\ pc[c] \in {"deferred", "done"}
            /\ pc[c] = "done" => err[c] # NoErr
            /\ ~Emitted(c, "AfterVersionMigrate", trace[c][k].vs[1])
            /\ \A j \in (k + 1)..Len(trace[c]) :
                  IF trace[c][j].kind = "call"
                  THEN trace[c][j].name = "Rollback"
                  ELSE trace[c][j].name \in {"OnRollbackError", "OnExecuteError"}

\* C16's case: a call with MaxVersion pending versions has returned after the
\* first command of its first version failed, a migration of MaxCommands
\* commands.
C16_Witness ==
    \E c \in Calls : \E k \in 1..Len(trace[c]) :
        /\ pc[c] = "done"
        /\ Len(versions[c]) = MaxVersion
        /\ FailedApply(c, k)
        /\ trace[c][k].name = "Exec"
        /\ trace[c][k].vs = <<versions[c][1], 1>>
        /\ Len(migration[c].Commands) = MaxCommands

\* The step is one of call c: its entry or one of its Driver calls.
StepOf(c) ==
    /\ pc'[c] # "idle"
    /\ <<pc[c], trace[c]>> # <<pc'[c], trace'[c]>>

\* The versions registered for namespace ns in process p that are not rows of
\* versions table t: what an Execute for ns with a driver on t would find
\* pending.
PendingOf(p, ns, t) == registered[p][ns] \ ledger[t]

\* C17 as stated: a step of an Execute for one namespace changes, for any
\* other namespace, neither the registered versions, nor the registry's map,
\* nor the versions that are pending.
C17_NamespacesApart ==
    [][\A c \in Calls : \A p \in Procs : \A ns \in Namespaces \ {namespace'[c]} :
          StepOf(c) =>
              /\ registered'[p][ns] = registered[p][ns]
              /\ ns \in DOMAIN namespacedMigrations[p] =>
                    /\ ns \in DOMAIN namespacedMigrations'[p]
                    /\ namespacedMigrations'[p][ns] = namespacedMigrations[p][ns]
              /\ \A t \in Tables : PendingOf(p, ns, t)' = PendingOf(p, ns, t)]_vars

C19_LockReleasedOnReturn ==
    \A c \in Calls :
        (pc[c] = "done" /\ Succeeded(c, "Lock")) => lock[Table(drv[c])] # drv[c]

\* The step is the caller's call of method name of driver d.
Answers(name, d) ==
    /\ Len(trace'[Caller]) = 1
    /\ trace'[Caller][1].name = name
    /\ trace'[Caller][1].vs = <<d>>

\* C20 as stated: Commit and Rollback of every driver return
\* ErrTransactionNotStarted exactly when the driver has begun no transaction,
\* and then change nothing; with the transaction open, and no error from the
\* database, Commit makes the rows of the transaction committed rows and
\* Rollback drops them, and the transaction is over.
C20_NotStartedExactly ==
    [][\A d \in Drivers : \A name \in {"Commit", "Rollback"} :
          Answers(name, d) =>
              LET e == trace'[Caller][1].err
                  t == Table(d) IN
              /\ e = ErrTransactionNotStarted <=> drivers[d].tx = "nil"
              /\ drivers[d].tx = "nil" => UNCHANGED <<drivers, ledger, lock>>
              /\ (drivers[d].tx = "open" /\ e \in {NoErr, ErrTransactionNotStarted}) =>
                    /\ drivers'[d].tx = "done"
                    /\ drivers'[d].inserted = {}
                    /\ ledger'[t] = IF name = "Commit"
                                     THEN ledger[t] \cup drivers[d].inserted
                                     ELSE ledger[t]]_vars

\* The error of an Execute whose Begin found a transaction in the driver.
ErrAlreadyStarted == Wrap("failed to begin transaction", ErrTransactionAlreadyStarted)

\* Call c's Begin returned ErrTransactionAlreadyStarted.
BeginRefused(c) ==
    \E k \in 1..Len(trace[c]) :
        trace[c][k] = Call("Begin", <<>>, ErrTransactionAlreadyStarted)

\* C21: the Begin of a call whose driver has an open transaction returns
\* ErrTransactionAlreadyStarted; a call whose Begin returned it is on its way
\* out with the error that wraps it, and has called none of Lock, Versions,
\* Exec, InsertVersion and Commit.
C21_BeginRefused ==
    /\ [](\A c \in Calls :
            BeginRefused(c) =>
                /\ pc[c] \in {"deferred", "done"}
                /\ err[c] = ErrAlreadyStarted
                /\ \A name \in {"Lock", "Versions", "Exec", "InsertVersion", "Commit"} :
                      ~Called(c, name))
    /\ [][\A c \in Calls :
            (pc[c] = "begin" /\ pc'[c] # "begin" /\ drivers[drv[c]].tx = "open") =>
                /\ pc'[c] = "deferred"
                /\ err'[c] = ErrAlreadyStarted
                /\ UNCHANGED <<drivers, dbVars>>]_vars

\* C21's case: a call has returned the error while the call that began the
\* driver's transaction before it is still in progress.
C21_Witness ==
    \E c, o \in Calls :
        /\ c # o
        /\ pc[c] = "done"
        /\ BeginRefused(c)
        /\ err[c] = ErrAlreadyStarted
        /\ drv[o] = drv[c]
        /\ pc[o] \notin {"idle", "done"}
        /\ Succeeded(o, "Begin")

\* C22 as stated: no step of an Execute call changes the registry; the
\* versions registered for every namespace and their definitions are after
\* the step what they were before it.
C22_RegistryReadOnly ==
    [][(\E c \in Calls : StepOf(c)) => UNCHANGED namespacedMigrations]_vars

\* The entries of call c's trace that are the event name.
EventsOf(c, name) ==
    {k \in 1..Len(trace[c]) : trace[c][k].kind = "event" /\ trace[c][k].name = name}

\* The events of Execute that are about one version.
VersionEvents == {"BeforeVersionMigrate", "AfterVersionMigrate", "OnVersionSkipped"}

\* C23: a call whose Versions returned nil has emitted BeforeVersionsMigrate
\* once, right after it, and no call emits it otherwise; its list is the
\* ascending list of the versions in the registry's map that are no rows of
\* the table, empty or not. A call that has left the loop has emitted
\* AfterVersionsMigrate once with the same list, and no call emits it
\* otherwise; the versions skipped in the loop are in the list. Every event
\* about one version is about a version of the list.
C23_RunEvents ==
    /\ [](\A c \in Calls :
            /\ Cardinality(EventsOf(c, "BeforeVersionsMigrate")) =
                  IF Succeeded(c, "Versions") THEN 1 ELSE 0
            /\ \A k \in EventsOf(c, "BeforeVersionsMigrate") :
                  /\ trace[c][k].vs = versions[c]
                  /\ trace[c][k - 1] = Call("Versions", <<>>, NoErr)
            /\ Cardinality(EventsOf(c, "AfterVersionsMigrate")) =
                  IF Called(c, "Commit") \/ pc[c] = "commit" THEN 1 ELSE 0
            /\ \A k \in EventsOf(c, "AfterVersionsMigrate") :
                  /\ trace[c][k].vs = versions[c]
                  /\ Cardinality(EventsOf(c, "OnVersionSkipped")) =
                        Cardinality(Range(versions[c]) \ CalledFor(c, "InsertVersion"))
            /\ \A k \in 1..Len(trace[c]) :
                  (trace[c][k].kind = "event" /\ trace[c][k].name \in VersionEvents) =>
                      trace[c][k].vs[1] \in Range(versions[c]))
    /\ [][\A c \in Calls :
            (pc[c] = "versions" /\ pc'[c] = "loop") =>
                versions'[c] =
                    SortInts(DOMAIN MigrationsByVersion(c) \ ledger[Table(drv[c])])]_vars

\* C23's case: a call has returned success with a pending list that holds a
\* version it skipped, on a table that held an applied version.
C23_Witness ==
    \E c \in Calls :
        /\ Committed(c)
        /\ EventsOf(c, "OnVersionSkipped") # {}
        /\ EventsOf(c, "AfterVersionsMigrate") # {}
        /\ ledger[Table(drv[c])] \ Range(versions[c]) # {}

\* The error of an InsertVersion whose INSERT affected no row.
ErrNoRowsAffected == <<"expected new version row to be inserted, but no rows affected">>

\* Call c's InsertVersion for some version returned ErrNoRowsAffected.
InsertedNoRow(c) ==
    \E k \in 1..Len(trace[c]) :
        IsCall(c, k, "InsertVersion") /\ trace[c][k].err = ErrNoRowsAffected

\* C24: a call whose InsertVersion found no row affected is on its way out
\* with that error wrapped, calls Rollback and not Commit, and no version of
\* its pending list is a row of the table; and a call that returned success
\* has a row in the table for every version whose InsertVersion returned nil.
C24_InsertAffectsOneRow ==
    \A c \in Calls :
        /\ InsertedNoRow(c) =>
              /\ pc[c] \in {"deferred", "done"}
              /\ err[c] = Wrap("failed to insert version", ErrNoRowsAffected)
              /\ ~Called(c, "Commit")
              /\ pc[c] = "done" => Called(c, "Rollback")
              /\ Range(versions[c]) \cap Rows(drv[c]) =
                    IF pc[c] = "done" THEN {} ELSE SucceededFor(c, "InsertVersion")
        /\ Committed(c) => SucceededFor(c, "InsertVersion") \subseteq ledger[Table(drv[c])]

\* C24's case: a call with MaxVersion pending versions has returned after the
\* insert of its last version affected no row, the earlier ones inserted.
C24_Witness ==
    \E c \in Calls :
        /\ pc[c] = "done"
        /\ InsertedNoRow(c)
        /\ Len(versions[c]) = MaxVersion
        /\ Cardinality(SucceededFor(c, "InsertVersion")) = MaxVersion - 1

\* A Driver call of call c before Commit returned an error: the database
\* failed it, or the deadline of the call's context passed while it waited.
FailedEarly(c) ==
    \E k \in FailedCalls(c) : trace[c][k].name # "Commit"

\* C25: a call one of whose Driver calls before Commit returned an error, as
\* Lock does when the deadline passes while another call holds the lock, is on
\* its way out: it does not call Commit, it returns an error after one call
\* of Rollback, which leaves no row of its transaction, and none of its steps
\* changes the committed rows.
C25_DeadlineRollsBack ==
    /\ [](\A c \in Calls :
            FailedEarly(c) =>
                /\ pc[c] \in {"deferred", "done"}
                /\ ~Called(c, "Commit")
                /\ pc[c] = "done" =>
                      /\ err[c] # NoErr
                      /\ Cardinality(CallsOf(c, "Rollback")) = 1
                      /\ drivers[drv[c]].inserted = {})
    /\ [][\A c \in Calls : (StepOf(c) /\ FailedEarly(c)') => ledger' = ledger]_vars

\* C25's case: a call has returned after its Lock failed, and the other call
\* holds the lock of the table with a version inserted.
C25_Witness ==
    \E c, o \in Calls :
        /\ c # o
        /\ pc[c] = "done"
        /\ \E k \in FailedCalls(c) : trace[c][k].name = "Lock"
        /\ HasRead(o)
        /\ Table(drv[o]) = Table(drv[c])
        /\ drivers[drv[o]].inserted # {}

\* C26: a driver that holds a transaction in d.tx holds one after every step,
\* Commit and Rollback included; the Begin of a call on such a driver returns
\* ErrTransactionAlreadyStarted and the call is on its way out, and a call
\* gets past Begin only on a driver that held none before: a driver serves at
\* most one call that gets past Begin.
C26_TransactionHandleKept ==
    /\ [][\A d \in Drivers : drivers[d].tx # "nil" => drivers'[d].tx # "nil"]_vars
    /\ [][\A c \in Calls :
            (pc[c] = "begin" /\ pc'[c] # "begin") =>
                IF drivers[drv[c]].tx # "nil"
                THEN /\ pc'[c] = "deferred"
                     /\ err'[c] = ErrAlreadyStarted
                     /\ UNCHANGED drivers
                ELSE pc'[c] = "lock" => drivers'[drv[c]].tx = "open"]_vars

\* C26's case: a call has returned ErrTransactionAlreadyStarted from a driver
\* whose transaction an earlier call had ended.
C26_Witness ==
    \E c \in Calls :
        /\ pc[c] = "done"
        /\ BeginRefused(c)
        /\ drivers[drv[c]].tx = "done"
        /\ \A o \in Calls \ {c} : pc[o] = "idle"

\* C27 as stated: no step of a call whose Begin returned
\* ErrTransactionAlreadyStarted changes the driver, the rows of its
\* transaction, the committed rows or the lock; the transaction of the call
\* that began it stays open until that call ends it.
C27_OwnerKeepsTransaction ==
    [][\A c \in Calls :
          (StepOf(c) /\ BeginRefused(c)') => UNCHANGED <<drivers, ledger, lock>>]_vars

\* The pending list an Execute for call c's namespace would compute now from
\* the registry's map and the rows of call c's table.
PendingNow(c) == SortInts(DOMAIN MigrationsByVersion(c) \ ledger[Table(drv[c])])

\* C28: the step of a call that reads the table takes out of the registry's
\* map of the call's namespace the versions that are rows of the table and no
\* other, and leaves the definitions of the others; no other step of a call
\* changes the registry. The versions of a call's pending list stay in the
\* map, and when a call that read the table has returned an error the list
\* that an Execute would compute from the map and the table is the list of
\* the failed call.
C28_RegistryKeepsPending ==
    /\ [][\A c \in Calls :
            StepOf(c) =>
                IF pc[c] = "versions" /\ pc'[c] = "loop"
                THEN namespacedMigrations' =
                       [namespacedMigrations EXCEPT ![proc[c]][namespace[c]] =
                          [v \in DOMAIN @ \ ledger[Table(drv[c])] |-> @[v]]]
                ELSE UNCHANGED namespacedMigrations]_vars
    /\ [](\A c \in Calls :
            Succeeded(c, "Versions") =>
                /\ Range(versions[c]) \subseteq DOMAIN MigrationsByVersion(c)
                /\ (pc[c] = "done" /\ err[c] # NoErr) => PendingNow(c) = versions[c])

\* C28's case: a call that found an applied version in the table and took it
\* out of the registry has returned an error after its rollback, with
\* versions pending.
C28_Witness ==
    \E c \in Calls :
        /\ pc[c] = "done"
        /\ err[c] # NoErr
        /\ Succeeded(c, "Versions")
        /\ Succeeded(c, "Rollback")
        /\ versions[c] # <<>>
        /\ RegisteredVersions(c) \ DOMAIN MigrationsByVersion(c) # {}

====
